---- MODULE Spec2Model ----
(***************************************************************************)
(* A model of usdtbot.py: the rate resolver (get_crypto_rate,              *)
(* get_all_rates), the message handlers and the handler registration of    *)
(* main, with the telegram Application dispatching each update to the      *)
(* first matching handler of its group.                                    *)
(*                                                                         *)
(* Floats are modelled as records: a finite value (an integer here), nan   *)
(* or a signed infinity.  Message texts are strings; Chars gives the       *)
(* characters of each text the model uses, and float() is modelled as a    *)
(* parser over those characters.  Russian button labels are written in     *)
(* ASCII: "Vse kursy", "Konvertirovat USDT", "Otmena".                     *)
(***************************************************************************)
EXTENDS Integers, Sequences, FiniteSets, TLC

VARIABLES
    conversations,  \* conv_handler's state per user: "None" or "CONVERT_AMOUNT"
    update,         \* the update the Application processed last
    handler,        \* the callback that ran for it ("none": no handler matched)
    sent,           \* the replies (reply_text calls) made while handling it
    requests,       \* the HTTP requests (requests.get calls) made meanwhile
    raised,         \* the exception that escaped the callback ("" if none)
    prior,          \* the sender's conversation state when the update arrived
    provider,       \* the provider responses met by the asset the update resolves
    inflight,       \* event loop: the responses awaited by the running callback
    call,           \* resolver harness: the call under test and its inputs
    ret             \* resolver harness: what the call returned

vars ==
    <<conversations, update, handler, sent, requests, raised, prior, provider,
      inflight, call, ret>>

\* ------------------------------------------------------------------ bounds

\* Number of chat users sending updates.
NumUsers == 2

Users == 1..NumUsers

\* ------------------------------------------------------------------ floats

Fl(n) == [k |-> "fin", v |-> n]
NaN == [k |-> "nan", v |-> 0]
Inf(sign) == [k |-> "inf", v |-> sign]

Sign(n) == IF n > 0 THEN 1 ELSE IF n < 0 THEN -1 ELSE 0

FSign(a) == IF a.k = "nan" THEN 0 ELSE Sign(a.v)

\* a * b on floats (IEEE: nan absorbs, inf * 0 = nan).
FMul(a, b) ==
    IF a.k = "nan" \/ b.k = "nan" THEN NaN
    ELSE IF a.k = "fin" /\ b.k = "fin" THEN Fl(a.v * b.v)
    ELSE IF FSign(a) = 0 \/ FSign(b) = 0 THEN NaN
    ELSE Inf(FSign(a) * FSign(b))

\* a <= 0 on floats (every comparison with nan is False).
FLeqZero(a) == a.k # "nan" /\ a.v <= 0

\* a > 0 on floats.
FPositive(a) == a.k # "nan" /\ a.v > 0

\* bool(a) for a float: only 0.0 is falsy (nan and inf are truthy).
FTruthy(a) == ~(a.k = "fin" /\ a.v = 0)

\* ------------------------------------------------------------------ texts

BTN_USDT == "USDT/KZT"
BTN_BTC == "BTC/KZT"
BTN_ETH == "ETH/KZT"
BTN_TON == "TON/KZT"
BTN_ALL == "Vse kursy"
BTN_CONVERT == "Konvertirovat USDT"
BTN_CANCEL == "Otmena"

\* The characters of a text.  Only the first character of a label matters
\* to the code (a command starts with "/", float() rejects a letter).
Chars(t) ==
    CASE t = "100" -> <<"1", "0", "0">>
      [] t = "7" -> <<"7">>
      [] t = "0" -> <<"0">>
      [] t = "-5" -> <<"-", "5">>
      [] t = "+3" -> <<"+", "3">>
      [] t = "450" -> <<"4", "5", "0">>
      [] t = "abc" -> <<"a", "b", "c">>
      [] t = "nan" -> <<"n", "a", "n">>
      [] t = "inf" -> <<"i", "n", "f">>
      [] t = "-inf" -> <<"-", "i", "n", "f">>
      [] t = "kzt" -> <<"k", "z", "t">>
      [] t = "usd" -> <<"u", "s", "d">>
      [] t = "KZT" -> <<"K", "Z", "T">>
      [] t = "/start" -> <<"/", "s", "t", "a", "r", "t">>
      [] t = "/help" -> <<"/", "h", "e", "l", "p">>
      [] t = "" -> <<>>
      [] OTHER -> <<"L">>

Digits == {"0", "1", "2", "3", "4", "5", "6", "7", "8", "9"}

DigitVal(c) ==
    CASE c = "0" -> 0 [] c = "1" -> 1 [] c = "2" -> 2 [] c = "3" -> 3
      [] c = "4" -> 4 [] c = "5" -> 5 [] c = "6" -> 6 [] c = "7" -> 7
      [] c = "8" -> 8 [] c = "9" -> 9

RECURSIVE DigitsVal(_)
DigitsVal(cs) ==
    IF cs = <<>> THEN 0
    ELSE 10 * DigitsVal(SubSeq(cs, 1, Len(cs) - 1)) + DigitVal(cs[Len(cs)])

\* float(str): an optional sign, then decimal digits, "nan" or "inf".
\* Anything else is a ValueError (ok = FALSE).  Fractions, exponents,
\* surrounding blanks and upper case are outside the alphabet modelled.
ParseFloat(cs) ==
    LET signed == cs # <<>> /\ cs[1] \in {"+", "-"}
        sgn == IF signed /\ cs[1] = "-" THEN -1 ELSE 1
        body == IF signed THEN Tail(cs) ELSE cs
    IN  IF body = <<>> THEN [ok |-> FALSE, val |-> NaN]
        ELSE IF \A i \in 1..Len(body) : body[i] \in Digits
             THEN [ok |-> TRUE, val |-> Fl(sgn * DigitsVal(body))]
        ELSE IF body = <<"n", "a", "n">> THEN [ok |-> TRUE, val |-> NaN]
        ELSE IF body = <<"i", "n", "f">> THEN [ok |-> TRUE, val |-> Inf(sgn)]
        ELSE [ok |-> FALSE, val |-> NaN]

\* s in t for two strings: s occurs in t.
IsSubstr(s, t) ==
    LET a == Chars(s)
        b == Chars(t)
    IN  \E i \in 0..(Len(b) - Len(a)) : SubSeq(b, i + 1, i + Len(a)) = a

\* ------------------------------------------------------------------- JSON

JNull == [t |-> "null", n |-> 0, s |-> "", o |-> <<>>]
JNum(n) == [t |-> "num", n |-> n, s |-> "", o |-> <<>>]
JStr(s) == [t |-> "str", n |-> 0, s |-> s, o |-> <<>>]
JList == [t |-> "list", n |-> 0, s |-> "", o |-> <<>>]
JEmpty == [t |-> "obj", n |-> 0, s |-> "", o |-> <<>>]
JObj(key, val) == [t |-> "obj", n |-> 0, s |-> "", o |-> (key :> val)]

\* Results of a Python expression: a value, or the exception it raises.
Val(v) == [exc |-> "", val |-> v]
Exc(e) == [exc |-> e, val |-> NaN]

\* key in j: a dict has keys, a list elements, a str substrings; None and
\* numbers are not iterable.
PyIn(key, j) ==
    CASE j.t = "obj" -> [exc |-> "", val |-> key \in DOMAIN j.o]
      [] j.t = "list" -> [exc |-> "", val |-> FALSE]
      [] j.t = "str" -> [exc |-> "", val |-> IsSubstr(key, j.s)]
      [] OTHER -> [exc |-> "TypeError", val |-> FALSE]

\* j[key] with a str key: only a dict is subscriptable by it.
PyIndex(j, key) ==
    IF j.t = "obj"
    THEN IF key \in DOMAIN j.o THEN [exc |-> "", val |-> j.o[key]]
         ELSE [exc |-> "KeyError", val |-> JNull]
    ELSE [exc |-> "TypeError", val |-> JNull]

\* float(j) of a parsed JSON value.
PyFloat(j) ==
    CASE j.t = "num" -> Val(Fl(j.n))
      [] j.t = "str" ->
            LET p == ParseFloat(Chars(j.s))
            IN  IF p.ok THEN Val(p.val) ELSE Exc("ValueError")
      [] OTHER -> Exc("TypeError")

\* ------------------------------------------------------ provider responses

\* What one HTTP request can come back with.  The first three fail before a
\* body is parsed; the others are 2xx responses with a JSON body, written
\* here for the request's keys k1 (asset id, or "rates") and k2 ("kzt",
\* "usd" or "KZT").
TransportFailures == {"timeout", "http500", "notjson"}

BodyNames ==
    {"null", "number", "list", "empty", "k1null", "k1empty", "k1str",
     "vnull", "vabc", "v450s", "vneg", "vzero", "v2", "v450"}

Responses == TransportFailures \cup BodyNames

Body(name, k1, k2) ==
    CASE name = "null" -> JNull
      [] name = "number" -> JNum(1)
      [] name = "list" -> JList
      [] name = "empty" -> JEmpty
      [] name = "k1null" -> JObj(k1, JNull)
      [] name = "k1empty" -> JObj(k1, JEmpty)
      [] name = "k1str" -> JObj(k1, JStr(k2))
      [] name = "vnull" -> JObj(k1, JObj(k2, JNull))
      [] name = "vabc" -> JObj(k1, JObj(k2, JStr("abc")))
      [] name = "v450s" -> JObj(k1, JObj(k2, JStr("450")))
      [] name = "vneg" -> JObj(k1, JObj(k2, JNum(-5)))
      [] name = "vzero" -> JObj(k1, JObj(k2, JNum(0)))
      [] name = "v2" -> JObj(k1, JObj(k2, JNum(2)))
      [] name = "v450" -> JObj(k1, JObj(k2, JNum(450)))

\* The response is a 2xx JSON object holding k1 with a numeric k2 subfield.
WellFormed(name) == name \in {"vneg", "vzero", "v2", "v450"}

\* The number a well-formed response carries.
NumberIn(name) == Body(name, "a", "b").o["a"].o["b"].n

\* ------------------------------------------------------------ get_crypto_rate

Symbols == {"USDT", "BTC", "ETH", "TON", "DOGE"}

crypto_ids ==
    [s \in {"USDT", "BTC", "ETH", "TON"} |->
        CASE s = "USDT" -> "tether"
          [] s = "BTC" -> "bitcoin"
          [] s = "ETH" -> "ethereum"
          [] s = "TON" -> "the-open-network"]

ReqPrice(id, vs) == [api |-> "coingecko", ids |-> id, vs |-> vs]
ReqFx == [api |-> "exchangerate", ids |-> "", vs |-> "USD"]

\* except (requests.exceptions.RequestException, KeyError, ValueError):
\* Timeout and HTTPError are RequestExceptions, JSONDecodeError is a
\* ValueError; TypeError is none of them.
ExceptClause(e) ==
    e \in {"Timeout", "HTTPError", "JSONDecodeError", "KeyError", "ValueError"}

\* if k in d: float(d[k]) else: raise KeyError -- the inner half of the test
\* `k1 in data and k2 in data[k1]` and the conversion that follows it.
FloatField(d, k) ==
    IF PyIn(k, d).exc # "" THEN Exc(PyIn(k, d).exc)
    ELSE IF ~PyIn(k, d).val THEN Exc("KeyError")
    ELSE IF PyIndex(d, k).exc # "" THEN Exc(PyIndex(d, k).exc)
    ELSE PyFloat(PyIndex(d, k).val)

\* if k1 in data and k2 in data[k1]: float(data[k1][k2])
\* else: raise KeyError
RateField(data, k1, k2) ==
    IF PyIn(k1, data).exc # "" THEN Exc(PyIn(k1, data).exc)
    ELSE IF ~PyIn(k1, data).val THEN Exc("KeyError")
    ELSE IF PyIndex(data, k1).exc # "" THEN Exc(PyIndex(data, k1).exc)
    ELSE FloatField(PyIndex(data, k1).val, k2)

\* requests.get(url); raise_for_status(); data = json(); then the field.
Fetch(resp, k1, k2) ==
    IF resp = "timeout" THEN Exc("Timeout")
    ELSE IF resp = "http500" THEN Exc("HTTPError")
    ELSE IF resp = "notjson" THEN Exc("JSONDecodeError")
    ELSE RateField(Body(resp, k1, k2), k1, k2)

Rate(r, reqs) == [tag |-> "rate", rate |-> r, exc |-> "", reqs |-> reqs]
None(reqs) == [tag |-> "None", rate |-> NaN, exc |-> "", reqs |-> reqs]
Raise(e, reqs) == [tag |-> "raise", rate |-> NaN, exc |-> e, reqs |-> reqs]

ReqsPrimary(id) == <<ReqPrice(id, "kzt")>>
ReqsUsd(id) == <<ReqPrice(id, "kzt"), ReqPrice(id, "usd")>>
ReqsFx(id) == <<ReqPrice(id, "kzt"), ReqPrice(id, "usd"), ReqFx>>

\* Lines 61-69: with the USD rate u in hand, the USD-to-KZT leg came back
\* with k.
FxLeg(id, u, k) ==
    IF k.exc = "" THEN Rate(FMul(u.val, k.val), ReqsFx(id))
    ELSE IF ExceptClause(k.exc) THEN None(ReqsFx(id))
    ELSE Raise(k.exc, ReqsFx(id))

\* UsdLeg with a second try of the USD request after a failure.
UsdLeg_Retry(id, net, u) ==
    IF u.exc = "" THEN FxLeg(id, u, Fetch(net.k, "rates", "KZT"))
    ELSE IF ExceptClause(u.exc)
         THEN None(ReqsUsd(id) \o <<ReqPrice(id, "usd")>>)
         ELSE Raise(u.exc, ReqsUsd(id))

\* Lines 55-60, 70-74: the USD leg came back with u.
UsdLeg(id, net, u) ==
    IF u.exc = "" THEN FxLeg(id, u, Fetch(net.k, "rates", "KZT"))
    ELSE IF ExceptClause(u.exc) THEN None(ReqsUsd(id))
    ELSE Raise(u.exc, ReqsUsd(id))

\* PrimaryLeg without the return of line 47: a successful primary falls
\* through to the USD path.
PrimaryLeg_NoReturn(id, net, p) ==
    IF p.exc = "" \/ ExceptClause(p.exc)
    THEN UsdLeg(id, net, Fetch(net.u, id, "usd"))
    ELSE Raise(p.exc, ReqsPrimary(id))

\* Lines 42-52: the primary request came back with p.  A success returns;
\* an exception the except clause names starts the fallback; any other
\* leaves get_crypto_rate.
PrimaryLeg(id, net, p) ==
    IF p.exc = "" THEN Rate(p.val, ReqsPrimary(id))
    ELSE IF ExceptClause(p.exc) THEN UsdLeg(id, net, Fetch(net.u, id, "usd"))
    ELSE Raise(p.exc, ReqsPrimary(id))

\* get_crypto_rate(crypto_symbol), with net = [p, u, k] the responses the
\* primary request, the USD leg and the USD-to-KZT leg would get.
get_crypto_rate(sym, net) ==
    IF sym \notin DOMAIN crypto_ids THEN None(<<>>)
    ELSE PrimaryLeg(crypto_ids[sym], net, Fetch(net.p, crypto_ids[sym], "kzt"))

\* if rate: (None and 0.0 are falsy)
Truthy(out) == out.tag = "rate" /\ FTruthy(out.rate)

\* -------------------------------------------------------------- get_all_rates

AllAssets == <<"USDT", "BTC", "ETH", "TON">>

AllRates(rates, reqs) ==
    [tag |-> "dict", rates |-> rates, exc |-> "", reqs |-> reqs]
AllRaise(e, reqs) == [tag |-> "raise", rates |-> <<>>, exc |-> e, reqs |-> reqs]

\* The loop of get_all_rates over AllAssets[i..4], nets[sym] the responses
\* for sym's requests.  rates is the dict so far, as a sequence of
\* <<asset, rate>> in insertion order.  An exception ends the loop.
RECURSIVE AllRatesFrom(_, _, _, _)
RECURSIVE AllRatesStep(_, _, _, _, _)
AllRatesStep(i, nets, rates, reqs, out) ==
    IF out.tag = "raise" THEN AllRaise(out.exc, reqs \o out.reqs)
    ELSE IF Truthy(out)
         THEN AllRatesFrom(i + 1, nets, Append(rates, <<AllAssets[i], out.rate>>),
                           reqs \o out.reqs)
         ELSE AllRatesFrom(i + 1, nets, rates, reqs \o out.reqs)

AllRatesFrom(i, nets, rates, reqs) ==
    IF i > Len(AllAssets) THEN AllRates(rates, reqs)
    ELSE AllRatesStep(i, nets, rates, reqs,
                      get_crypto_rate(AllAssets[i], nets[AllAssets[i]]))

get_all_rates(nets) == AllRatesFrom(1, nets, <<>>, <<>>)

\* ----------------------------------------------------------------- replies

\* get_reply_keyboard(): the six menu buttons.
get_reply_keyboard ==
    <<(<<BTN_USDT, BTN_BTC>>), (<<BTN_ETH, BTN_TON>>), (<<BTN_ALL, BTN_CONVERT>>)>>

\* ReplyKeyboardMarkup([[KeyboardButton("Otmena")]])
CancelKeyboard == <<(<<BTN_CANCEL>>)>>

\* A reply_text call: the message (its kind and the values formatted into
\* it) and its reply_markup.
Reply(kind, asset, amount, rate, result, rates, keyboard) ==
    [kind |-> kind, asset |-> asset, amount |-> amount, rate |-> rate,
     result |-> result, rates |-> rates, keyboard |-> keyboard]

Plain(kind, keyboard) == Reply(kind, "", NaN, NaN, NaN, <<>>, keyboard)

\* What a callback did: the replies it sent, the requests it made, the
\* exception that escaped it, and the state it returned ("keep": it
\* returned None, or raised).
Done(replies, reqs, next) ==
    [sent |-> replies, reqs |-> reqs, raised |-> "", next |-> next]
Escaped(e, reqs) == [sent |-> <<>>, reqs |-> reqs, raised |-> e, next |-> "keep"]

\* ---------------------------------------------------------------- callbacks

\* start_command with rates = get_all_rates(): the whole body is in
\* try/except Exception, which logs.
WelcomeReply(all) ==
    IF all.tag = "raise" THEN Done(<<>>, all.reqs, "keep")
    ELSE IF all.rates # <<>>
         THEN Done(<<Reply("welcome_rates", "", NaN, NaN, NaN, all.rates,
                           get_reply_keyboard)>>, all.reqs, "keep")
         ELSE Done(<<Plain("welcome_no_rates", get_reply_keyboard)>>,
                   all.reqs, "keep")

start_command(nets) == WelcomeReply(get_all_rates(nets))

convert_start ==
    Done(<<Plain("enter_amount", CancelKeyboard)>>, <<>>, "CONVERT_AMOUNT")

\* The corrective reply sent with the menu keyboard.
InvalidAmount_Menu ==
    Done(<<Plain("invalid_amount", get_reply_keyboard)>>, <<>>, "CONVERT_AMOUNT")

\* except ValueError: the corrective reply, and the state stays.
InvalidAmount ==
    Done(<<Plain("invalid_amount", CancelKeyboard)>>, <<>>, "CONVERT_AMOUNT")

\* The conversion reply with the amount where the product belongs.
ConvertReply_NoProduct(amount, out) ==
    IF out.tag = "raise" THEN Escaped(out.exc, out.reqs)
    ELSE IF Truthy(out)
         THEN Done(<<Reply("converted", "USDT", amount, out.rate,
                           amount, <<>>, get_reply_keyboard)>>,
                   out.reqs, "None")
         ELSE Done(<<Plain("convert_no_rate", get_reply_keyboard)>>,
                   out.reqs, "None")

\* Lines 141-151, with rate = get_crypto_rate('USDT').  An exception of
\* get_crypto_rate is no ValueError: it leaves convert_amount.
ConvertReply(amount, out) ==
    IF out.tag = "raise" THEN Escaped(out.exc, out.reqs)
    ELSE IF Truthy(out)
         THEN Done(<<Reply("converted", "USDT", amount, out.rate,
                           FMul(amount, out.rate), <<>>, get_reply_keyboard)>>,
                   out.reqs, "None")
         ELSE Done(<<Plain("convert_no_rate", get_reply_keyboard)>>,
                   out.reqs, "None")

\* Lines 136-157, with amount = float(user_input) attempted.
ConvertParsed(amount, nets) ==
    IF ~amount.ok THEN InvalidAmount
    ELSE IF FLeqZero(amount.val) THEN InvalidAmount
    ELSE ConvertReply(amount.val, get_crypto_rate("USDT", nets["USDT"]))

\* convert_amount without the test for the cancel text.
convert_amount_NoCancel(user_input, nets) ==
    ConvertParsed(ParseFloat(Chars(user_input)), nets)

convert_amount(user_input, nets) ==
    IF user_input = BTN_CANCEL
    THEN Done(<<Plain("cancelled", get_reply_keyboard)>>, <<>>, "None")
    ELSE ConvertParsed(ParseFloat(Chars(user_input)), nets)

cancel == Done(<<Plain("cancelled", get_reply_keyboard)>>, <<>>, "None")

\* One single-asset branch of handle_message, with rate = get_crypto_rate(sym).
RateReply(sym, out) ==
    IF out.tag = "raise" THEN Done(<<>>, out.reqs, "keep")
    ELSE IF Truthy(out)
         THEN Done(<<Reply("rate", sym, NaN, out.rate, NaN, <<>>,
                           get_reply_keyboard)>>, out.reqs, "keep")
         ELSE Done(<<Reply("no_rate", sym, NaN, NaN, NaN, <<>>,
                           get_reply_keyboard)>>, out.reqs, "keep")

\* The "all rates" branch of handle_message, with rates = get_all_rates().
AllRatesReply(all) ==
    IF all.tag = "raise" THEN Done(<<>>, all.reqs, "keep")
    ELSE IF all.rates # <<>>
         THEN Done(<<Reply("all_rates", "", NaN, NaN, NaN, all.rates,
                           get_reply_keyboard)>>, all.reqs, "keep")
         ELSE Done(<<Plain("all_no_rates", get_reply_keyboard)>>,
                   all.reqs, "keep")

\* The button whose text is one asset's rate request.
ButtonAsset(text) ==
    CASE text = BTN_USDT -> "USDT"
      [] text = BTN_BTC -> "BTC"
      [] text = BTN_ETH -> "ETH"
      [] text = BTN_TON -> "TON"

\* handle_message: the whole body is in try/except Exception, which logs.
\* The "convert" label returns without a reply.
handle_message(message_text, nets) ==
    IF message_text \in {BTN_USDT, BTN_BTC, BTN_ETH, BTN_TON}
    THEN RateReply(ButtonAsset(message_text),
                   get_crypto_rate(ButtonAsset(message_text),
                                   nets[ButtonAsset(message_text)]))
    ELSE IF message_text = BTN_ALL THEN AllRatesReply(get_all_rates(nets))
    ELSE IF message_text = BTN_CONVERT THEN Done(<<>>, <<>>, "keep")
    ELSE Done(<<Plain("choose", get_reply_keyboard)>>, <<>>, "keep")

\* ----------------------------------------------------------------- dispatch

\* filters.COMMAND: the text starts with a bot command.
IsCommand(text) == text # "" /\ Chars(text)[1] = "/"

\* filters.TEXT & ~filters.COMMAND
TextNotCommand(text) == text # "" /\ ~IsCommand(text)

\* conv_handler with the state's handler tried whatever the state.
conv_handler_AnyState(state, text) ==
    IF TextNotCommand(text) THEN "convert_amount"
    ELSE IF text = BTN_CANCEL THEN "cancel"
    ELSE "none"

\* ConversationHandler.check_update for the handler main builds: with no
\* conversation only the entry point is tried; in CONVERT_AMOUNT the state's
\* handler, and the fallback only if that does not match.  The callback
\* chosen, or "none".
conv_handler(state, text) ==
    IF state = "None"
    THEN IF text = BTN_CONVERT THEN "convert_start" ELSE "none"
    ELSE IF TextNotCommand(text) THEN "convert_amount"
    ELSE IF text = BTN_CANCEL THEN "cancel"
    ELSE "none"

\* The handlers main adds to the Application, all in group 0, in order.
MainHandlers == <<"CommandHandler", "MessageHandler", "ConversationHandler">>

\* CheckUpdate with a CommandHandler that looks at the conversation state.
CheckUpdate_StartByState(h, state, text) ==
    CASE h = "CommandHandler" ->
            IF text = "/start" /\ state = "None" THEN "start_command"
            ELSE "none"
      [] h = "MessageHandler" ->
            IF TextNotCommand(text) THEN "handle_message" ELSE "none"
      [] h = "ConversationHandler" -> conv_handler(state, text)

\* check_update of one registered handler: the callback it would run.
CheckUpdate(h, state, text) ==
    CASE h = "CommandHandler" ->
            IF text = "/start" THEN "start_command" ELSE "none"
      [] h = "MessageHandler" ->
            IF TextNotCommand(text) THEN "handle_message" ELSE "none"
      [] h = "ConversationHandler" -> conv_handler(state, text)

\* Application.process_update within one group: the first handler whose
\* check_update accepts the update handles it, and no other.
RECURSIVE FirstMatch(_, _, _)
FirstMatch(hs, state, text) ==
    IF hs = <<>> THEN "none"
    ELSE IF CheckUpdate(Head(hs), state, text) # "none"
         THEN CheckUpdate(Head(hs), state, text)
         ELSE FirstMatch(Tail(hs), state, text)

RunCallback(cb, text, nets) ==
    CASE cb = "start_command" -> start_command(nets)
      [] cb = "handle_message" -> handle_message(text, nets)
      [] cb = "convert_start" -> convert_start
      [] cb = "convert_amount" -> convert_amount(text, nets)
      [] cb = "cancel" -> cancel
      [] cb = "none" -> Done(<<>>, <<>>, "keep")

\* Handled with one conversation for all users.
Handled_AllUsers(u, text, cb, res) ==
    /\ update' = [user |-> u, text |-> text]
    /\ prior' = conversations[u]
    /\ handler' = cb
    /\ sent' = res.sent
    /\ requests' = res.reqs
    /\ raised' = res.raised
    /\ conversations' =
          IF res.next = "keep" THEN conversations
          ELSE [v \in Users |-> res.next]
    /\ UNCHANGED <<call, ret>>

\* The update's effect, cb the callback chosen and res what it did.  A
\* callback that returns a state sets it (END removes the conversation); one
\* that returns None or raises leaves it.
Handled(u, text, cb, res) ==
    /\ update' = [user |-> u, text |-> text]
    /\ prior' = conversations[u]
    /\ handler' = cb
    /\ sent' = res.sent
    /\ requests' = res.reqs
    /\ raised' = res.raised
    /\ conversations' =
          IF res.next = "keep" THEN conversations
          ELSE [conversations EXCEPT ![u] = res.next]
    /\ UNCHANGED <<call, ret>>

\* The asset a text can make the handlers resolve on its own.
AssetOf(text) ==
    CASE text = BTN_BTC -> "BTC"
      [] text = BTN_ETH -> "ETH"
      [] text = BTN_TON -> "TON"
      [] OTHER -> "USDT"

\* One update from user u, processed to the end by the handlers hs.
ProcessUpdate(hs, u, text, nets) ==
    /\ Handled(u, text, FirstMatch(hs, conversations[u], text),
               RunCallback(FirstMatch(hs, conversations[u], text), text, nets))
    /\ provider' = nets[AssetOf(text)]
    /\ UNCHANGED inflight

\* ------------------------------------------------------------ initial state

NoUpdate == [user |-> 0, text |-> ""]
NoFlight == [busy |-> FALSE]
Quiet == [p |-> "timeout", u |-> "timeout", k |-> "timeout"]
NoCall == [fn |-> "none"]
Pending == [tag |-> "pending"]

\* The Application after main has built it: no conversation, nothing handled.
AppInit ==
    /\ conversations = [u \in Users |-> "None"]
    /\ update = NoUpdate
    /\ handler = "none"
    /\ sent = <<>>
    /\ requests = <<>>
    /\ raised = ""
    /\ prior = "None"
    /\ provider = Quiet
    /\ inflight = NoFlight

\* -------------------------------------------------------------- application

\* The updates users send: text messages and commands.
Texts ==
    {BTN_USDT, BTN_BTC, BTN_ETH, BTN_TON, BTN_ALL, BTN_CONVERT, BTN_CANCEL,
     "100", "7", "0", "-5", "abc", "nan", "inf"}

Commands == {"/start", "/help"}

\* The responses one get_crypto_rate call can meet: one per request it may
\* issue.
Scenarios == [p : Responses, u : Responses, k : Responses]

\* The scenarios each asset of a get_all_rates batch draws from: a direct
\* quote (450, 0, -5), a fallback product, both providers failing, and the
\* two places an ill-typed field can sit.
BatchScenarios ==
    { [p |-> "v450", u |-> "timeout", k |-> "timeout"],
      [p |-> "vzero", u |-> "timeout", k |-> "timeout"],
      [p |-> "vneg", u |-> "timeout", k |-> "timeout"],
      [p |-> "empty", u |-> "v2", k |-> "v450"],
      [p |-> "timeout", u |-> "http500", k |-> "timeout"],
      [p |-> "k1null", u |-> "v2", k |-> "v450"],
      [p |-> "notjson", u |-> "vnull", k |-> "v450"] }

\* The scenarios each asset's requests meet while an update that reaches
\* get_all_rates is handled: a direct quote, a fallback product, both
\* providers failing, an ill-typed field.
AppScenarios ==
    { [p |-> "v450", u |-> "timeout", k |-> "timeout"],
      [p |-> "empty", u |-> "v2", k |-> "v450"],
      [p |-> "timeout", u |-> "http500", k |-> "timeout"],
      [p |-> "k1null", u |-> "v2", k |-> "v450"] }

\* The provider responses to draw while a text is handled: every asset's
\* for the texts that reach get_all_rates, one asset's for the others.
NetsFor(text) ==
    IF text \in {BTN_ALL, "/start"}
    THEN [DOMAIN crypto_ids -> AppScenarios]
    ELSE { [a \in DOMAIN crypto_ids |-> IF a = AssetOf(text) THEN sc ELSE Quiet] :
             sc \in BatchScenarios }

\* The Application as main registers it.
Init == AppInit /\ call = NoCall /\ ret = Pending

CommandUpdate ==
    \E u \in Users, text \in Commands : \E nets \in NetsFor(text) :
        ProcessUpdate(MainHandlers, u, text, nets)

TextUpdate ==
    \E u \in Users, text \in Texts : \E nets \in NetsFor(text) :
        ProcessUpdate(MainHandlers, u, text, nets)

Next == CommandUpdate \/ TextUpdate

Spec == Init /\ [][Next]_vars

\* The ConversationHandler of main on its own: every update reaches it.
ConvHandlers == <<"ConversationHandler">>

\* The values a user's entry of the ConversationHandler takes: no
\* conversation, or the one state main declares.
ConvStates == {"None", "CONVERT_AMOUNT"}

ConvCommandUpdate ==
    \E u \in Users, text \in Commands : \E nets \in NetsFor(text) :
        ProcessUpdate(ConvHandlers, u, text, nets)

ConvTextUpdate ==
    \E u \in Users, text \in Texts : \E nets \in NetsFor(text) :
        ProcessUpdate(ConvHandlers, u, text, nets)

NextConv == ConvCommandUpdate \/ ConvTextUpdate

SpecConv == Init /\ [][NextConv]_vars

\* The Application's event loop, with the time a callback spends in
\* requests.get made visible.  The callbacks are coroutines of one asyncio
\* loop, requests.get is an ordinary blocking call (no await, no executor),
\* and main builds the Application with its default of one update at a time:
\* the one thread stays inside the call until the provider has answered or
\* the timeout has passed, and the loop takes no other update meanwhile.

\* The callback chosen for the update makes requests while it runs.
CallsProvider(cb, text, nets) == RunCallback(cb, text, nets).reqs # <<>>

\* The callback cb has started for u's update and is inside requests.get.
Blocks(u, text, cb, nets) ==
    /\ inflight' = [busy |-> TRUE, nets |-> nets]
    /\ update' = [user |-> u, text |-> text]
    /\ prior' = conversations[u]
    /\ handler' = cb
    /\ sent' = <<>>
    /\ requests' = <<>>
    /\ raised' = ""
    /\ provider' = nets[AssetOf(text)]
    /\ UNCHANGED <<conversations, call, ret>>

\* The loop, when it is free, takes u's update and runs its callback: to the
\* end if the callback makes no request, else up to the provider's answers.
Receive(u, text, nets) ==
    /\ ~inflight.busy
    /\ IF CallsProvider(FirstMatch(MainHandlers, conversations[u], text),
                        text, nets)
       THEN Blocks(u, text, FirstMatch(MainHandlers, conversations[u], text),
                   nets)
       ELSE ProcessUpdate(MainHandlers, u, text, nets)

ReceiveFrom(u) ==
    \E text \in Texts \cup Commands : \E nets \in NetsFor(text) :
        Receive(u, text, nets)

\* The provider's answers (or the timeouts) arrive: the callback runs on to
\* its end and the loop is free again.
Respond ==
    /\ inflight.busy
    /\ Handled(update.user, update.text, handler,
               RunCallback(handler, update.text, inflight.nets))
    /\ inflight' = NoFlight
    /\ UNCHANGED provider

LoopCommandUpdate ==
    \E u \in Users, text \in Commands : \E nets \in NetsFor(text) :
        Receive(u, text, nets)

LoopTextUpdate ==
    \E u \in Users, text \in Texts : \E nets \in NetsFor(text) :
        Receive(u, text, nets)

NextLoop == LoopCommandUpdate \/ LoopTextUpdate \/ Respond

SpecLoop == Init /\ [][NextLoop]_vars

\* ------------------------------------------------------- application claims

\* The update handled last was taken by a callback.
Taken == update # NoUpdate /\ handler # "none"

\* C1: handling an update produces exactly one reply, whatever the user, the
\* text and the conversation state, also when rate resolution fails.
C1_ExactlyOneReply == Taken => Len(sent) = 1

\* C2: a user with no conversation who sends the "convert" label gets a
\* conversation in CONVERT_AMOUNT and the prompt for an amount.
C2_StartOpensSession ==
    (update.text = BTN_CONVERT /\ prior = "None") =>
        /\ conversations[update.user] = "CONVERT_AMOUNT"
        /\ sent = <<Plain("enter_amount", CancelKeyboard)>>

\* Under main's registration no user ever has a conversation: the state C3
\* speaks of is not reached.
NoSessionUnderMain == \A u \in Users : conversations[u] = "None"

\* The text parses as a number greater than 0.
PositiveNumber(text) ==
    /\ ParseFloat(Chars(text)).ok
    /\ FPositive(ParseFloat(Chars(text)).val)

\* C10: in CONVERT_AMOUNT, a text that is not the cancel keyword and does not
\* parse as a number greater than 0 gets the corrective reply and leaves the
\* user in CONVERT_AMOUNT.
C10_InvalidKeepsSession ==
    (/\ prior = "CONVERT_AMOUNT"
     /\ update.text \in Texts \ {BTN_CANCEL}
     /\ ~PositiveNumber(update.text)) =>
        /\ sent = <<Plain("invalid_amount", CancelKeyboard)>>
        /\ conversations[update.user] = "CONVERT_AMOUNT"

\* The amount a text parses to, and what get_crypto_rate('USDT') returned to
\* the callback of the update handled last.
AmountOf(text) == ParseFloat(Chars(text)).val
UsdtOut == get_crypto_rate("USDT", provider)

\* The reply of a conversion of amount a at rate r.
Converted(a, r) ==
    Reply("converted", "USDT", a, r, FMul(a, r), <<>>, get_reply_keyboard)

\* C11: in CONVERT_AMOUNT, a text that parses as a number a > 0 while the
\* USDT rate resolves to r gets the one reply "a USDT = a * r KZT at rate r",
\* and the user's conversation is over.
C11_ConvertCompletes ==
    (/\ prior = "CONVERT_AMOUNT"
     /\ PositiveNumber(update.text)
     /\ Truthy(UsdtOut)) =>
        /\ sent = <<Converted(AmountOf(update.text), UsdtOut.rate)>>
        /\ conversations[update.user] = "None"

C11_Witness ==
    /\ prior = "CONVERT_AMOUNT"
    /\ handler = "convert_amount"
    /\ update.text = "100"
    /\ Truthy(UsdtOut)
    /\ FPositive(UsdtOut.rate)
    /\ Len(sent) = 1
    /\ sent[1].kind = "converted"
    /\ sent[1].result = Fl(100 * UsdtOut.rate.v)
    /\ conversations[update.user] = "None"

\* C12: in CONVERT_AMOUNT, a text that parses as a number greater than 0
\* while the USDT rate does not resolve gets the one reply that the rate
\* could not be obtained, with no converted amount and no further prompt, and
\* the user's conversation is over.
C12_NoRateEndsSession ==
    (/\ prior = "CONVERT_AMOUNT"
     /\ PositiveNumber(update.text)
     /\ ~Truthy(UsdtOut)) =>
        /\ sent = <<Plain("convert_no_rate", get_reply_keyboard)>>
        /\ conversations[update.user] = "None"

\* C13: in CONVERT_AMOUNT, the cancel text gets the one reply "cancelled"
\* and ends the user's conversation, and no request goes to the provider.
C13_CancelEndsSession ==
    (prior = "CONVERT_AMOUNT" /\ update.text = BTN_CANCEL) =>
        /\ sent = <<Plain("cancelled", get_reply_keyboard)>>
        /\ conversations[update.user] = "None"
        /\ requests = <<>>

C13_Witness ==
    /\ prior = "CONVERT_AMOUNT"
    /\ update.text = BTN_CANCEL
    /\ handler = "convert_amount"
    /\ Len(sent) = 1
    /\ sent[1].kind = "cancelled"
    /\ conversations[update.user] = "None"
    /\ requests = <<>>

\* Every reply sent for the update carries the keyboard kb.
AllCarry(kb) == \A i \in 1..Len(sent) : sent[i].keyboard = kb

\* C14 as stated: every reply of convert_amount carries the menu keyboard,
\* whatever the outcome.
C14_AlwaysMenu == handler = "convert_amount" => AllCarry(get_reply_keyboard)

\* C14: every reply of convert_amount carries the keyboard of the state it
\* leaves the user in: the menu keyboard when the conversation is over
\* (converted, cancelled, no rate), the cancel keyboard when the user stays
\* in CONVERT_AMOUNT (invalid amount).
C14_KeyboardOfState ==
    handler = "convert_amount" =>
        IF conversations[update.user] = "None"
        THEN AllCarry(get_reply_keyboard)
        ELSE AllCarry(CancelKeyboard)

C14_Witness ==
    /\ handler = "convert_amount"
    /\ update.text = "abc"
    /\ conversations[update.user] = "CONVERT_AMOUNT"
    /\ sent = <<Plain("invalid_amount", CancelKeyboard)>>

\* C15: while a provider call made for one user's update is outstanding,
\* the loop can take and handle an update of a different user.
C15_OtherUsersServed ==
    inflight.busy => \E u \in Users \ {update.user} : ENABLED ReceiveFrom(u)

\* C16: a user has one conversation at most, in a state the handler knows;
\* the "convert" label sent twice in succession by a user leaves that user
\* with a conversation in CONVERT_AMOUNT.
C16_TwoStartsOneSession ==
    [][/\ conversations' \in [Users -> ConvStates]
       /\ (/\ update.text = BTN_CONVERT
           /\ update'.text = BTN_CONVERT
           /\ update'.user = update.user) =>
              conversations'[update'.user] = "CONVERT_AMOUNT"]_vars

\* C17: /start goes to start_command whatever the sender's conversation
\* state, start_command returns no state, and the sender's conversation is
\* afterwards what it was.
C17_StartIgnoresSession ==
    /\ \A st \in ConvStates :
          FirstMatch(MainHandlers, st, "/start") = "start_command"
    /\ update.text = "/start" =>
          /\ handler = "start_command"
          /\ conversations[update.user] = prior
          /\ \A nets \in NetsFor("/start") : start_command(nets).next = "keep"

C17_Witness ==
    /\ update.text = "/start"
    /\ handler = "start_command"
    /\ Len(sent) = 1
    /\ sent[1].kind = "welcome_rates"
    /\ prior = "None"
    /\ conversations[update.user] = "None"

\* C18: convert_amount runs for an update only if its sender had a
\* conversation in CONVERT_AMOUNT when it arrived; no text of a user without
\* one is parsed as an amount.
C18_AmountNeedsSession == handler = "convert_amount" => prior = "CONVERT_AMOUNT"

C18_Witness ==
    /\ handler = "convert_amount"
    /\ update.text = "7"
    /\ prior = "CONVERT_AMOUNT"
    /\ conversations[update.user] = "None"

\* C20: handling an update of one user leaves every other user's
\* conversation as it was: none is created, changed or ended.
C20_OtherUsersUntouched ==
    [][\A v \in Users :
          v # update'.user => conversations'[v] = conversations[v]]_vars

C20_Witness ==
    /\ handler = "convert_amount"
    /\ prior = "CONVERT_AMOUNT"
    /\ conversations[update.user] = "None"
    /\ \E v \in Users \ {update.user} : conversations[v] = "CONVERT_AMOUNT"

\* ---------------------------------------------------------- resolver harness

InitRate ==
    /\ AppInit
    /\ ret = Pending
    /\ \/ call \in [fn : {"get_crypto_rate"}, sym : Symbols, net : Scenarios]
       \/ call \in [fn : {"get_all_rates"},
                    nets : [DOMAIN crypto_ids -> BatchScenarios]]

CallRate ==
    /\ call.fn = "get_crypto_rate"
    /\ ret = Pending
    /\ ret' = get_crypto_rate(call.sym, call.net)
    /\ requests' = ret'.reqs
    /\ UNCHANGED <<conversations, update, handler, sent, raised, prior, provider,
                   inflight, call>>

CallAllRates ==
    /\ call.fn = "get_all_rates"
    /\ ret = Pending
    /\ ret' = get_all_rates(call.nets)
    /\ requests' = ret'.reqs
    /\ UNCHANGED <<conversations, update, handler, sent, raised, prior, provider,
                   inflight, call>>

NextRate == CallRate \/ CallAllRates

SpecRate == InitRate /\ [][NextRate]_vars

RateDone == call.fn = "get_crypto_rate" /\ ret # Pending
AllRatesDone == call.fn = "get_all_rates" /\ ret # Pending
Supported == call.sym \in DOMAIN crypto_ids

\* A response that is a failure of the provider in the spec's taxonomy:
\* NetworkError, HttpError, an unparsable body, a missing field, or a field
\* of the wrong JSON type.
MissingField(r) == r \in {"list", "empty", "k1empty"}
IllTyped(r) == r \in {"null", "number", "k1null", "k1str", "vnull", "vabc"}
ProviderFailure(r) == r \in TransportFailures \/ MissingField(r) \/ IllTyped(r)

\* C4: get_crypto_rate never raises: whatever the providers respond, it
\* returns a rate or None.
C4_NeverRaises == RateDone => ret.tag \in {"rate", "None"}

\* C5: for a supported asset whose primary response is well-formed (2xx, the
\* asset key with a numeric kzt subfield), get_crypto_rate returns exactly
\* that number and issues the primary request only.
C5_PrimaryWins ==
    (RateDone /\ Supported /\ WellFormed(call.net.p)) =>
        /\ ret.tag = "rate"
        /\ ret.rate = Fl(NumberIn(call.net.p))
        /\ requests = <<ReqPrice(crypto_ids[call.sym], "kzt")>>

C5_Witness ==
    /\ RateDone /\ call.sym = "TON" /\ call.net.p = "v2"
    /\ call.net.u = "v450" /\ call.net.k = "v450"
    /\ ret.tag = "rate"

\* C6: for a supported asset and every kind of primary failure, if both
\* fallback legs are well-formed, get_crypto_rate returns usd * kzt.
C6_FallbackProduct ==
    (/\ RateDone /\ Supported
     /\ ProviderFailure(call.net.p)
     /\ WellFormed(call.net.u) /\ WellFormed(call.net.k)) =>
        /\ ret.tag = "rate"
        /\ ret.rate = Fl(NumberIn(call.net.u) * NumberIn(call.net.k))

\* C7: if the primary fails and the fallback fails (its first leg fails, or
\* its second leg fails after a well-formed first), get_crypto_rate returns
\* None.
C7_BothFailNone ==
    (/\ RateDone /\ Supported
     /\ ProviderFailure(call.net.p)
     /\ \/ ProviderFailure(call.net.u)
        \/ WellFormed(call.net.u) /\ ProviderFailure(call.net.k)) =>
        ret.tag = "None"

\* C8: every rate get_crypto_rate returns is strictly positive.
C8_RatePositive == (RateDone /\ ret.tag = "rate") => FPositive(ret.rate)

\* The dict C9 expects: the assets whose own get_crypto_rate call returns a
\* rate the caller takes as one (neither None nor 0.0), in order, each with
\* that rate.
RECURSIVE ExpectedRates(_, _)
ExpectedRates(i, nets) ==
    IF i > Len(AllAssets) THEN <<>>
    ELSE
      LET sym == AllAssets[i]
          out == get_crypto_rate(sym, nets[sym])
      IN  IF Truthy(out)
          THEN <<(<<sym, out.rate>>)>> \o ExpectedRates(i + 1, nets)
          ELSE ExpectedRates(i + 1, nets)

\* C9: get_all_rates returns exactly the assets whose own resolution
\* succeeded, in order, each with its rate; one asset's failure never aborts
\* the batch.
C9_BatchExact ==
    AllRatesDone =>
        /\ ret.tag = "dict"
        /\ ret.rates = ExpectedRates(1, call.nets)

\* The number of times the request q is in the sequence rs.
Count(rs, q) == Cardinality({i \in 1..Len(rs) : rs[i] = q})

\* What the first two legs come to, from the responses alone.
PrimaryFailed == Fetch(call.net.p, crypto_ids[call.sym], "kzt").exc # ""
UsdSucceeded == Fetch(call.net.u, crypto_ids[call.sym], "usd").exc = ""

\* C19: one call of get_crypto_rate for a supported asset issues the primary
\* request exactly once and first; the USD request at most once, second, and
\* only if the primary failed; the USD-to-KZT request at most once, third,
\* and only if the USD request succeeded; three requests at most.
C19_RequestOrder ==
    (RateDone /\ Supported) =>
        /\ Len(requests) \in 1..3
        /\ Count(requests, ReqPrice(crypto_ids[call.sym], "kzt")) = 1
        /\ requests[1] = ReqPrice(crypto_ids[call.sym], "kzt")
        /\ Count(requests, ReqPrice(crypto_ids[call.sym], "usd")) <= 1
        /\ Len(requests) >= 2 =>
              /\ requests[2] = ReqPrice(crypto_ids[call.sym], "usd")
              /\ PrimaryFailed
        /\ Count(requests, ReqFx) <= 1
        /\ Len(requests) = 3 =>
              /\ requests[3] = ReqFx
              /\ UsdSucceeded

C19_Witness ==
    /\ RateDone /\ Supported
    /\ call.net.p = "timeout"
    /\ requests = ReqsFx(crypto_ids[call.sym])
    /\ ret.tag = "rate"

====
